---- MODULE Spec2Model ----
(***************************************************************************)
(* Logify (lgy) terminal-session recorder: the state store                 *)
(* (logify-state.json), the recorder started by `start`, `stop`, and the   *)
(* readers of the session log (parseSessionLog, replay).                   *)
(*                                                                         *)
(* Text is modelled as a sequence of tokens.  A token is a piece of text   *)
(* that no marker of the log format straddles: the newline, the blank, the *)
(* markers of the format, and words.  The string operations of the source  *)
(* (split, startsWith, includes, match, replace, trim) are computed on     *)
(* these sequences.                                                        *)
(***************************************************************************)
EXTENDS Integers, Sequences, FiniteSets, TLC

\* ------------------------------------------------------------------ bounds
NumProcs == 3            \* CLI invocations (one process each), pids 1..NumProcs
MaxCmds == 1             \* entries opened in one log when invocations interleave
MaxChunks == 1           \* output chunks in one log when invocations interleave
SessCmds == 2            \* entries opened in one log by a single session
SessChunks == 2          \* output chunks in one log in a single session
MaxEntries == 2          \* entries of a log handed to the decoder
MaxOrphans == 1          \* blocks without a command marker in a log handed to the decoder

\* ------------------------------------------------------------------ tokens
NL == "\n"
SP == " "
OPEN == "=== ["
RBR == "]"
CMDMARK == "COMMAND:"
END == "=== END ==="
ENDPART == "=== EN"
STARTED == "=== Logify session started at 10:00:00 ==="
ENDED == "=== Logify session ended at 10:00:00 ==="
SECRET == "token=abc123"
MASKED == "token=***"
COLONSECRET == "token:abc123"
REDACTED == "token=[REDACTED]"
COLONREDACTED == "token:[REDACTED]"
OUTPUTMARK == "OUTPUT:"
FENCE == "<fence>"        \* the line of three backquotes that opens or closes a code block
MDTITLE == "# Session Log - "
ERRORMARK == "ERROR:"
HEADEND == "==="
MASKEDLONG == "token=******"

None == "none"

\* the state store holds <<>> (no file, or no activeSession) or <<record>>
NoSession == <<>>

Procs == 1..NumProcs
Dates == {"2025-10-04"}
Times == {"10:00:00"}

IsSpace(t) == t = SP \/ t = NL

\* ------------------------------------------------------- string operations
RECURSIVE TrimStart(_)
TrimStart(s) ==
  IF s # <<>> /\ IsSpace(Head(s)) THEN TrimStart(Tail(s)) ELSE s

RECURSIVE TrimEnd(_)
TrimEnd(s) ==
  IF s # <<>> /\ IsSpace(s[Len(s)]) THEN TrimEnd(SubSeq(s, 1, Len(s) - 1)) ELSE s

Trim(s) == TrimEnd(TrimStart(s))

Includes(s, t) == \E i \in 1..Len(s) : s[i] = t

StartsWith(s, t) == s # <<>> /\ s[1] = t

\* text.split(sep): the pieces between the occurrences of the token sep
RECURSIVE SplitOn(_, _)
SplitOn(s, sep) ==
  IF ~Includes(s, sep) THEN <<s>>
  ELSE LET i == CHOOSE k \in 1..Len(s) : s[k] = sep /\ \A j \in 1..(k - 1) : s[j] # sep
       IN  <<SubSeq(s, 1, i - 1)>> \o SplitOn(SubSeq(s, i + 1, Len(s)), sep)

\* ----------------------------------------------------------------- masking
MaskTok(t) == IF t = SECRET THEN MASKED ELSE t

maskSensitive(text) ==
  IF text = <<>> THEN text ELSE [i \in 1..Len(text) |-> MaskTok(text[i])]

\* ------------------------------------------- masking, character by character
\* The four replacements of maskSensitive computed on a text given as a
\* sequence of characters.
HexMin == 32             \* [a-f0-9]{32,}
Base64Min == 20          \* [A-Za-z0-9+/=]{20,}

LowerSeq == <<"a", "b", "c", "d", "e", "f", "g", "h", "i", "j", "k", "l", "m",
              "n", "o", "p", "q", "r", "s", "t", "u", "v", "w", "x", "y", "z">>
UpperSeq == <<"A", "B", "C", "D", "E", "F", "G", "H", "I", "J", "K", "L", "M",
              "N", "O", "P", "Q", "R", "S", "T", "U", "V", "W", "X", "Y", "Z">>
LowerCh == {LowerSeq[i] : i \in 1..Len(LowerSeq)}
UpperCh == {UpperSeq[i] : i \in 1..Len(UpperSeq)}
DigitCh == {"0", "1", "2", "3", "4", "5", "6", "7", "8", "9"}
SpaceCh == {SP, NL, "\t"}

\* \w, [a-f0-9] under /i, [A-Za-z0-9+/=], [a-zA-Z0-9._%+-], [a-zA-Z0-9.-]
WordCh == LowerCh \cup UpperCh \cup DigitCh \cup {"_"}
HexCh == DigitCh \cup {"a", "b", "c", "d", "e", "f", "A", "B", "C", "D", "E", "F"}
Base64Ch == LowerCh \cup UpperCh \cup DigitCh \cup {"+", "/", "="}
EmailLocalCh == LowerCh \cup UpperCh \cup DigitCh \cup {".", "_", "%", "+", "-"}
EmailDomainCh == LowerCh \cup UpperCh \cup DigitCh \cup {".", "-"}

LowerCase(c) ==
  IF c \in UpperCh THEN LowerSeq[CHOOSE i \in 1..Len(UpperSeq) : UpperSeq[i] = c] ELSE c

\* the last position of the longest run of characters of C that starts at i
RECURSIVE RunEnd(_, _, _)
RunEnd(s, i, C) == IF i <= Len(s) /\ s[i] \in C THEN RunEnd(s, i + 1, C) ELSE i - 1

\* the same for [^\s]
RECURSIVE RunEndNonSpace(_, _)
RunEndNonSpace(s, i) ==
  IF i <= Len(s) /\ s[i] \notin SpaceCh THEN RunEndNonSpace(s, i + 1) ELSE i - 1

\* \b between the positions i - 1 and i
WordAt(s, i) == i >= 1 /\ i <= Len(s) /\ s[i] \in WordCh
Boundary(s, i) == WordAt(s, i - 1) # WordAt(s, i)

\* text.replace(/re/g, ...): ends[i] is the last position of the match of re
\* that starts at i (0: none), rep[i] what replaces it
RECURSIVE ReplaceFrom(_, _, _, _)
ReplaceFrom(s, i, ends, rep) ==
  IF i > Len(s) THEN <<>>
  ELSE IF ends[i] = 0 THEN <<s[i]>> \o ReplaceFrom(s, i + 1, ends, rep)
  ELSE rep[i] \o ReplaceFrom(s, ends[i] + 1, ends, rep)

\* /(token|key|password|pwd|secret)\s*=\s*([^\s]+)/gi
KeysLogify == <<<<"t", "o", "k", "e", "n">>, <<"k", "e", "y">>,
                <<"p", "a", "s", "s", "w", "o", "r", "d">>, <<"p", "w", "d">>,
                <<"s", "e", "c", "r", "e", "t">>>>
\* /(token|key|password|pwd)\s*=\s*([^\s]+)/gi
KeysTTM == SubSeq(KeysLogify, 1, Len(KeysLogify) - 1)

KeyAt(s, i, keys) ==
  {k \in 1..Len(keys) :
     /\ i + Len(keys[k]) - 1 <= Len(s)
     /\ \A j \in 1..Len(keys[k]) : LowerCase(s[i + j - 1]) = keys[k][j]}

KeyLen(s, i, keys) ==
  IF KeyAt(s, i, keys) = {} THEN 0 ELSE Len(keys[CHOOSE k \in KeyAt(s, i, keys) : TRUE])

KeyValueEnd(s, i, keys) ==
  LET eq == RunEnd(s, i + KeyLen(s, i, keys), SpaceCh) + 1
      val == RunEnd(s, eq + 1, SpaceCh) + 1
      e == RunEndNonSpace(s, val)
  IN  IF KeyLen(s, i, keys) > 0 /\ eq <= Len(s) /\ s[eq] = "=" /\ e >= val THEN e ELSE 0

\* "$1=" followed by the stars
MaskKeyValue(s, keys, stars) ==
  ReplaceFrom(s, 1, [i \in 1..Len(s) |-> KeyValueEnd(s, i, keys)],
              [i \in 1..Len(s) |-> SubSeq(s, i, i + KeyLen(s, i, keys) - 1) \o <<"=">> \o stars])

\* /[a-zA-Z0-9._%+-]+@[a-zA-Z0-9.-]+\.[a-z]{2,}/g
EmailEnd(s, i) ==
  LET at == RunEnd(s, i, EmailLocalCh) + 1
      dom == RunEnd(s, at + 1, EmailDomainCh)
      dots == {k \in (at + 2)..dom : s[k] = "." /\ RunEnd(s, k + 1, LowerCh) >= k + 2}
  IN  IF at > i /\ at <= Len(s) /\ s[at] = "@" /\ dots # {}
      THEN RunEnd(s, (CHOOSE k \in dots : \A m \in dots : m <= k) + 1, LowerCh)
      ELSE 0

Stars(n) == [i \in 1..n |-> "*"]

MaskEmail(s) ==
  ReplaceFrom(s, 1, [i \in 1..Len(s) |-> EmailEnd(s, i)],
              [i \in 1..Len(s) |-> Stars(5) \o <<"@">> \o Stars(5)])

\* /\b[a-f0-9]{32,}\b/gi
HexEnd(s, i) ==
  LET r == RunEnd(s, i, HexCh)
  IN  IF Boundary(s, i) /\ r - i + 1 >= HexMin /\ Boundary(s, r + 1) THEN r ELSE 0

MaskHex(s, stars) ==
  ReplaceFrom(s, 1, [i \in 1..Len(s) |-> HexEnd(s, i)], [i \in 1..Len(s) |-> stars])

\* /\b[A-Za-z0-9+/=]{20,}\b/g: the longest run that ends at a word boundary
Base64End(s, i) ==
  LET r == RunEnd(s, i, Base64Ch)
      ends == {e \in (i + Base64Min - 1)..r : Boundary(s, e + 1)}
  IN  IF Boundary(s, i) /\ ends # {} THEN CHOOSE e \in ends : \A m \in ends : m <= e ELSE 0

MaskBase64(s, stars) ==
  ReplaceFrom(s, 1, [i \in 1..Len(s) |-> Base64End(s, i)], [i \in 1..Len(s) |-> stars])

\* maskSensitive of the Logify variant, and of the variant "with masking support"
MaskText(text) ==
  IF text = <<>> THEN text
  ELSE MaskBase64(MaskHex(MaskEmail(MaskKeyValue(text, KeysLogify, Stars(3))), Stars(3)), Stars(3))

MaskTextTTM(text) ==
  IF text = <<>> THEN text
  ELSE MaskBase64(MaskHex(MaskEmail(MaskKeyValue(text, KeysTTM, Stars(6))), Stars(8)), Stars(8))

\* s.includes(sub)
Contains(s, sub) ==
  \E i \in 1..(Len(s) - Len(sub) + 1) : SubSeq(s, i, i + Len(sub) - 1) = sub

\* texts with a credential-like part: [text, secret]
Value == <<"a", "b", "c", "1", "2", "3">>
KeyValueCases ==
  {[text |-> k \o e \o Value, secret |-> Value] :
     k \in {KeysLogify[i] : i \in 1..Len(KeysLogify)} \cup {<<"T", "O", "K", "E", "N">>},
     e \in {<<"=">>, <<SP, "=", SP>>}}
Email == <<"b", "o", "b", "@", "e", "x", "a", "m", "p", "l", "e", ".", "c", "o", "m">>
EmailUpper == <<"B", "O", "B", "@", "E", "X", "A", "M", "P", "L", "E", ".", "C", "O", "M">>
Hex8 == <<"d", "e", "a", "d", "B", "E", "E", "F">>
Hex32 == Hex8 \o Hex8 \o Hex8 \o Hex8
Base64Head == <<"Q", "U", "J", "D", "R", "E", "V", "G", "R", "0",
                "h", "J", "S", "k", "t", "M", "T", "U">>
SecretCases ==
  KeyValueCases \cup
  {[text |-> t, secret |-> t] :
     t \in {Email, EmailUpper, Hex32, Hex32 \o Hex8,
            Base64Head \o <<"5", "P">>, Base64Head \o <<"4", "=">>}}
Prefixes == {<<>>, <<"x", SP>>, <<"s", "k", "_">>}
Suffixes == {<<>>, <<SP, "y">>}
MaskInputs ==
  {[text |-> a \o c.text \o b, secret |-> c.secret, out |-> <<>>, by |-> "none"] :
     a \in Prefixes, b \in Suffixes, c \in SecretCases}

\* ---------------------------------------------------------- session parsing
\* line.match(/\[(.*?)\]/)?.[1] || "" on a line that starts with "=== ["
MatchTime(line) ==
  IF \E k \in 2..Len(line) : line[k] = RBR
  THEN LET k == CHOOSE i \in 2..Len(line) : line[i] = RBR /\ \A j \in 2..(i - 1) : line[j] # RBR
       IN  SubSeq(line, 2, k - 1)
  ELSE <<>>

\* line.replace(/^.*COMMAND:\s*/, "").trim()
MatchCmd(line) ==
  LET k == CHOOSE i \in 1..Len(line) :
             line[i] = CMDMARK /\ \A j \in (i + 1)..Len(line) : line[j] # CMDMARK
  IN  Trim(SubSeq(line, k + 1, Len(line)))

IsHeaderLine(line) == StartsWith(line, OPEN) /\ Includes(line, CMDMARK)

IsEndLine(line) == StartsWith(line, END)

\* the loop of parseSessionLog: st = [entries, current]
ParseStep(st, line) ==
  IF IsHeaderLine(line)
  THEN [entries |-> st.entries,
        current |-> <<[time |-> MatchTime(line), cmd |-> MatchCmd(line), output |-> <<>>]>>]
  ELSE IF IsEndLine(line)
  THEN IF st.current # <<>>
       THEN [entries |-> st.entries \o st.current, current |-> <<>>]
       ELSE st
  ELSE IF st.current # <<>>
  THEN [entries |-> st.entries,
        current |-> <<[st.current[1] EXCEPT !.output = Append(@, line)]>>]
  ELSE st

RECURSIVE ParseLines(_, _)
ParseLines(st, lines) ==
  IF lines = <<>> THEN st ELSE ParseLines(ParseStep(st, Head(lines)), Tail(lines))

\* variant: the entry still open at the end of the content is emitted too
parseSessionLogFlushesLast(content) ==
  LET r == ParseLines([entries |-> <<>>, current |-> <<>>], SplitOn(content, NL))
  IN  r.entries \o r.current

parseSessionLog(content) ==
  ParseLines([entries |-> <<>>, current |-> <<>>], SplitOn(content, NL)).entries

\* ------------------------------------------------------------------- state
VARIABLES
  pc,          \* pc[p]: "new", "start_read", "loop", "closing", "stop_read", "exited"
  st,          \* st[p]: the value readState() returned to process p
  sig,         \* sig[p]: a termination signal is pending for p
  live,        \* live[p]: the children of recorder p that have not closed (entry indices)
  logFile,     \* logFile[p]: the log file recorder p captured at start
  exitCode,    \* exitCode[p]: -1 while p has not exited
  outcome,     \* outcome[p]: what p reported to the user
  stateFile,   \* activeSession of logify-state.json, NoSession when the file is missing
  logs,        \* logs[d]: content of session-<d>.log
  terminal,    \* what the recorders wrote to process.stdout / process.stderr
  recorded,    \* history: recorded[d] the entries opened in logs[d], in order
  clean,       \* history: clean[d] no boundary or header was appended inside an open entry
  stopDone,    \* history: a stop that loaded a record completed and no start wrote state since
  reader,      \* what the last read command decoded or printed: [op, entries]
  exports,     \* exports[d]: <<>> or <<the Markdown that export wrote for date d>>
  rp,          \* the replay command in progress: its entries, position, delays, prints
  mask         \* an evaluation of maskSensitive on a text: [text, secret, out, by]

vars == <<pc, st, sig, live, logFile, exitCode, outcome, stateFile, logs, terminal,
          recorded, clean, stopDone, reader, exports, rp, mask>>

\* input lines of the interactive prompt, output chunks of a child
Lines == {<<>>, <<SP>>, <<"exit">>, <<"EXIT", SP>>, <<SP, "echo", SP, SECRET>>}
Chunks == {<<"a", NL>>, <<SECRET>>}
SessionChunks == {<<"a", NL>>, <<SECRET>>, <<END, NL>>}

LowerTok(t) == IF t = "EXIT" THEN "exit" ELSE t
\* variant: the keyword is compared as typed
toLowerCaseKeepsCase(s) == s

toLowerCase(s) == [i \in 1..Len(s) |-> LowerTok(s[i])]

\* no replay running, no text handed to maskSensitive
NoReplay == [pc |-> "none", fast |-> FALSE, content |-> <<>>, todo |-> <<>>,
             printed |-> <<>>, delays |-> 0, notice |-> FALSE]
NoMask == [text |-> <<>>, secret |-> <<>>, out |-> <<>>, by |-> "none"]

\* everything but the content of the state file and the text to mask
InitProcs ==
  /\ pc = [p \in Procs |-> "new"]
  /\ st = [p \in Procs |-> NoSession]
  /\ sig = [p \in Procs |-> FALSE]
  /\ live = [p \in Procs |-> {}]
  /\ logFile = [p \in Procs |-> None]
  /\ exitCode = [p \in Procs |-> -1]
  /\ outcome = [p \in Procs |-> None]
  /\ logs = [d \in Dates |-> <<>>]
  /\ terminal = <<>>
  /\ recorded = [d \in Dates |-> <<>>]
  /\ clean = [d \in Dates |-> TRUE]
  /\ stopDone = FALSE
  /\ reader = [op |-> "none", entries |-> <<>>]
  /\ exports = [d \in Dates |-> <<>>]
  /\ rp = NoReplay

Init ==
  /\ InitProcs
  /\ stateFile = NoSession
  /\ mask = NoMask

\* ------------------------------------------------------------ state store
\* The state file holds <<>> (no file), <<[pid, logFile]>> (the JSON text of
\* { activeSession: { pid, logFile } }) or <<[raw |-> text]>> (any other text).
IsRaw(v) == v # <<>> /\ "raw" \in DOMAIN v[1]

\* JSON.parse throws on a text that is not JSON
Unparsable(text) == text \in {"", "{not json"}

\* try { JSON.parse(readFileSync) } catch { {} }: <<>> stands for {}
readState ==
  IF IsRaw(stateFile) /\ Unparsable(stateFile[1].raw) THEN NoSession ELSE stateFile

\* st.activeSession: a TypeError when st is null, undefined (<<>>) when st is a
\* number, a string, an array or an object without the property
ThrowsOnAccess(v) == IsRaw(v) /\ v[1].raw = "null"
ActiveSession(v) == IF IsRaw(v) THEN NoSession ELSE v

writeState(obj) == stateFile' = obj

clearState == stateFile' = NoSession

todayDate == CHOOSE d \in Dates : TRUE

sessionFileForDate(d) == d

\* ------------------------------------------------------------ log appends
HasOpenEntry(d) == \E i \in 1..Len(recorded[d]) : ~recorded[d][i].closed

\* variant: the file is written, not appended to
writeFileSync(f, text) == logs' = [logs EXCEPT ![f] = text]

\* fs.appendFileSync(f, text)
appendFileSync(f, text) == logs' = [logs EXCEPT ![f] = @ \o text]

\* a boundary or a header lands in the log: inside an open entry the log is no longer clean
MarkBoundary(f) == clean' = [clean EXCEPT ![f] = @ /\ ~HasOpenEntry(f)]

\* a new invocation gets the next pid
Launch(p) == pc[p] = "new" /\ \A q \in 1..(p - 1) : pc[q] # "new"

\* ------------------------------------------------------------------- start
StartRead(p) ==
  /\ Launch(p)
  /\ st' = [st EXCEPT ![p] = readState]
  /\ pc' = [pc EXCEPT ![p] = "start_read"]
  /\ UNCHANGED <<sig, live, logFile, exitCode, outcome, stateFile, logs, terminal,
                 recorded, clean, stopDone, reader, exports, rp, mask>>

\* variant: the check does not exit, the start goes on over the existing record
StartConflictSkipsExit(p) ==
  /\ pc[p] = "start_read"
  /\ ActiveSession(st[p]) # NoSession
  /\ LET f == sessionFileForDate(todayDate)
     IN  /\ appendFileSync(f, <<STARTED, NL, NL>>)
         /\ MarkBoundary(f)
         /\ writeState(<<[pid |-> p, logFile |-> f]>>)
         /\ logFile' = [logFile EXCEPT ![p] = f]
  /\ stopDone' = FALSE
  /\ outcome' = [outcome EXCEPT ![p] = "Started"]
  /\ pc' = [pc EXCEPT ![p] = "loop"]
  /\ UNCHANGED <<st, sig, live, exitCode, terminal, recorded, reader, exports, rp, mask>>

StartConflict(p) ==
  /\ pc[p] = "start_read"
  /\ ActiveSession(st[p]) # NoSession
  /\ outcome' = [outcome EXCEPT ![p] = "Conflict"]
  /\ exitCode' = [exitCode EXCEPT ![p] = 1]
  /\ pc' = [pc EXCEPT ![p] = "exited"]
  /\ UNCHANGED <<st, sig, live, logFile, stateFile, logs, terminal,
                 recorded, clean, stopDone, reader, exports, rp, mask>>

StartAccept(p) ==
  /\ pc[p] = "start_read"
  /\ ~ThrowsOnAccess(st[p])
  /\ ActiveSession(st[p]) = NoSession
  /\ LET f == sessionFileForDate(todayDate)
     IN  /\ appendFileSync(f, <<STARTED, NL, NL>>)
         /\ MarkBoundary(f)
         /\ writeState(<<[pid |-> p, logFile |-> f]>>)
         /\ logFile' = [logFile EXCEPT ![p] = f]
  /\ stopDone' = FALSE
  /\ outcome' = [outcome EXCEPT ![p] = "Started"]
  /\ pc' = [pc EXCEPT ![p] = "loop"]
  /\ UNCHANGED <<st, sig, live, exitCode, terminal, recorded, reader, exports, rp, mask>>

\* readState returned null: `st.activeSession` throws, the process dies of the
\* uncaught TypeError (exit code 1)
StartThrows(p) ==
  /\ pc[p] = "start_read"
  /\ ThrowsOnAccess(st[p])
  /\ outcome' = [outcome EXCEPT ![p] = "TypeError"]
  /\ exitCode' = [exitCode EXCEPT ![p] = 1]
  /\ pc' = [pc EXCEPT ![p] = "exited"]
  /\ UNCHANGED <<st, sig, live, logFile, stateFile, logs, terminal,
                 recorded, clean, stopDone, reader, exports, rp, mask>>

\* ------------------------------------------------------------ line handler
LineEmpty(p, line) ==
  /\ pc[p] = "loop"
  /\ Trim(line) = <<>>
  /\ UNCHANGED vars

LineExit(p, line) ==
  /\ pc[p] = "loop"
  /\ Trim(line) # <<>>
  /\ toLowerCase(Trim(line)) = <<"exit">>
  /\ appendFileSync(logFile[p], <<ENDED, NL>>)
  /\ MarkBoundary(logFile[p])
  /\ clearState
  /\ IF live[p] = {}
     THEN /\ pc' = [pc EXCEPT ![p] = "exited"]
          /\ exitCode' = [exitCode EXCEPT ![p] = 0]
     ELSE /\ pc' = [pc EXCEPT ![p] = "closing"]
          /\ UNCHANGED exitCode
  /\ outcome' = [outcome EXCEPT ![p] = "Exit"]
  /\ UNCHANGED <<st, sig, live, logFile, terminal, recorded, stopDone, reader, exports, rp, mask>>

\* end of input on process.stdin: readline closes; no "close" listener is
\* registered, so nothing is appended and the state is not cleared, and the
\* process ends once no child is left
InputEnd(p) ==
  /\ pc[p] = "loop"
  /\ IF live[p] = {}
     THEN /\ pc' = [pc EXCEPT ![p] = "exited"]
          /\ exitCode' = [exitCode EXCEPT ![p] = 0]
     ELSE /\ pc' = [pc EXCEPT ![p] = "closing"]
          /\ UNCHANGED exitCode
  /\ outcome' = [outcome EXCEPT ![p] = "EndOfInput"]
  /\ UNCHANGED <<st, sig, live, logFile, stateFile, logs, terminal,
                 recorded, clean, stopDone, reader, exports, rp, mask>>

\* `=== [${nowTime()}] COMMAND: ${maskSensitive(cmd)}\n`
EncodeHeader(t, cmd) ==
  <<OPEN, t, RBR, SP, CMDMARK, SP>> \o maskSensitive(cmd) \o <<NL>>

LineCommand(p, line, t) ==
  /\ pc[p] = "loop"
  /\ LET cmd == Trim(line)
         f == logFile[p]
     IN  /\ cmd # <<>>
         /\ toLowerCase(cmd) # <<"exit">>
         /\ appendFileSync(f, EncodeHeader(t, cmd))
         /\ MarkBoundary(f)
         /\ recorded' = [recorded EXCEPT ![f] =
              Append(@, [time |-> <<t>>, cmd |-> maskSensitive(cmd), text |-> <<>>,
                         closed |-> FALSE, chunks |-> 0])]
         /\ live' = [live EXCEPT ![p] = @ \cup {Len(recorded[f]) + 1}]
  /\ UNCHANGED <<pc, st, sig, logFile, exitCode, outcome, stateFile, terminal, stopDone, reader, exports, rp, mask>>

\* ------------------------------------------------------- child process events
\* what a data handler appends to the log for the chunk s
\* variant: the chunk is kept in memory until the child closes
StdoutTextBuffered(s) == <<>>

StdoutText(s) == maskSensitive(s)

\* variant: the error stream is appended as it arrived
StderrTextRaw(s) == s

StderrText(s) == maskSensitive(s)

DataEvent(p, c, s, text) ==
  /\ pc[p] \in {"loop", "closing"}
  /\ c \in live[p]
  /\ terminal' = terminal \o s
  /\ appendFileSync(logFile[p], text)
  /\ recorded' = [recorded EXCEPT ![logFile[p]][c].text = @ \o text,
                                    ![logFile[p]][c].chunks = @ + 1]
  /\ UNCHANGED <<pc, st, sig, live, logFile, exitCode, outcome, stateFile, clean, stopDone, reader, exports, rp, mask>>

StdoutData(p, c, s) == DataEvent(p, c, s, StdoutText(s))

StderrData(p, c, s) == DataEvent(p, c, s, StderrText(s))

\* `=== END ===\n\n`
EndText == <<END, NL, NL>>

ChildClose(p, c) ==
  /\ pc[p] \in {"loop", "closing"}
  /\ c \in live[p]
  /\ appendFileSync(logFile[p], EndText)
  /\ recorded' = [recorded EXCEPT ![logFile[p]][c].closed = TRUE]
  /\ live' = [live EXCEPT ![p] = @ \ {c}]
  /\ IF pc[p] = "closing" /\ live[p] = {c}
     THEN /\ pc' = [pc EXCEPT ![p] = "exited"]
          /\ exitCode' = [exitCode EXCEPT ![p] = 0]
     ELSE UNCHANGED <<pc, exitCode>>
  /\ UNCHANGED <<st, sig, logFile, outcome, stateFile, terminal, clean, stopDone, reader, exports, rp, mask>>

\* ------------------------------------------------------------------ signals
\* SIGINT / SIGTERM sent to the recorder from outside the tool
ExternalSignal(p) ==
  /\ pc[p] \in {"loop", "closing"}
  /\ ~sig[p]
  /\ sig' = [sig EXCEPT ![p] = TRUE]
  /\ UNCHANGED <<pc, st, live, logFile, exitCode, outcome, stateFile, logs, terminal,
                 recorded, clean, stopDone, reader, exports, rp, mask>>

\* variant: the handler clears the state and exits without the boundary line
GracefulExitTextNone(p) == <<>>

\* what gracefulExit appends to the log
GracefulExitText(p) == <<ENDED, NL>>

gracefulExit(p) ==
  /\ pc[p] \in {"loop", "closing"}
  /\ sig[p]
  /\ appendFileSync(logFile[p], GracefulExitText(p))
  /\ MarkBoundary(logFile[p])
  /\ clearState
  /\ pc' = [pc EXCEPT ![p] = "exited"]
  /\ exitCode' = [exitCode EXCEPT ![p] = 0]
  /\ outcome' = [outcome EXCEPT ![p] = "Signalled"]
  /\ live' = [live EXCEPT ![p] = {}]
  /\ sig' = [sig EXCEPT ![p] = FALSE]
  /\ UNCHANGED <<st, logFile, terminal, recorded, stopDone, reader, exports, rp, mask>>

\* -------------------------------------------------------------------- stop
StopRead(p) ==
  /\ Launch(p)
  /\ st' = [st EXCEPT ![p] = readState]
  /\ pc' = [pc EXCEPT ![p] = "stop_read"]
  /\ UNCHANGED <<sig, live, logFile, exitCode, outcome, stateFile, logs, terminal,
                 recorded, clean, stopDone, reader, exports, rp, mask>>

\* variant: the check does not exit, stop falls through to clearState
StopNotFoundFallsThrough(p) ==
  /\ pc[p] = "stop_read"
  /\ ~ThrowsOnAccess(st[p])
  /\ ActiveSession(st[p]) = NoSession
  /\ outcome' = [outcome EXCEPT ![p] = "NotFound"]
  /\ clearState
  /\ exitCode' = [exitCode EXCEPT ![p] = 0]
  /\ pc' = [pc EXCEPT ![p] = "exited"]
  /\ UNCHANGED <<st, sig, live, logFile, logs, terminal, recorded, clean, stopDone, reader, exports, rp, mask>>

StopNotFound(p) ==
  /\ pc[p] = "stop_read"
  /\ ~ThrowsOnAccess(st[p])
  /\ ActiveSession(st[p]) = NoSession
  /\ outcome' = [outcome EXCEPT ![p] = "NotFound"]
  /\ exitCode' = [exitCode EXCEPT ![p] = 1]
  /\ pc' = [pc EXCEPT ![p] = "exited"]
  /\ UNCHANGED <<st, sig, live, logFile, stateFile, logs, terminal,
                 recorded, clean, stopDone, reader, exports, rp, mask>>

StopThrows(p) ==
  /\ pc[p] = "stop_read"
  /\ ThrowsOnAccess(st[p])
  /\ outcome' = [outcome EXCEPT ![p] = "TypeError"]
  /\ exitCode' = [exitCode EXCEPT ![p] = 1]
  /\ pc' = [pc EXCEPT ![p] = "exited"]
  /\ UNCHANGED <<st, sig, live, logFile, stateFile, logs, terminal,
                 recorded, clean, stopDone, reader, exports, rp, mask>>

\* process.kill(pid) succeeds when pid is alive and may be signalled
KillDelivered(pid, permitted) == pc[pid] \in {"loop", "closing"} /\ permitted

\* variant: clearState sits inside the try block, after the kill
StopClearsOnlyIfDelivered(delivered) == delivered

\* stop clears the state after the kill, delivered or not
StopClears(delivered) == TRUE

StopKill(p, permitted) ==
  /\ pc[p] = "stop_read"
  /\ ActiveSession(st[p]) # NoSession
  /\ LET pid == st[p][1].pid
         delivered == KillDelivered(pid, permitted)
     IN  /\ sig' = [sig EXCEPT ![pid] = @ \/ delivered]
         /\ outcome' = [outcome EXCEPT ![p] = IF delivered THEN "Stopped" ELSE "KillFailed"]
         /\ IF StopClears(delivered) THEN clearState ELSE UNCHANGED stateFile
  /\ stopDone' = TRUE
  /\ exitCode' = [exitCode EXCEPT ![p] = 0]
  /\ pc' = [pc EXCEPT ![p] = "exited"]
  /\ UNCHANGED <<st, live, logFile, logs, terminal, recorded, clean, reader, exports, rp, mask>>

\* ------------------------------------------------------------------ replay
\* the tokens that contain the text "==="
HasTripleEq(t) == t \in {OPEN, END, ENDPART, STARTED, ENDED}

\* entry.match(/COMMAND:\s+(.+)/) tried at the COMMAND: at position i: the
\* position where the group starts, 0 when the regex does not match there
RECURSIVE SpaceRunEnd(_, _)
SpaceRunEnd(s, m) ==
  IF m < Len(s) /\ IsSpace(s[m + 1]) THEN SpaceRunEnd(s, m + 1) ELSE m

GroupStartAt(s, i) ==
  LET m == SpaceRunEnd(s, i)
      back == {j \in (i + 2)..Len(s) : s[j] = SP}
  IN  IF m = i THEN 0
      ELSE IF m < Len(s) THEN m + 1
      ELSE IF back # {} THEN CHOOSE j \in back : \A k \in back : k <= j
      ELSE 0

\* the rest of the line from position a on: (.+) does not cross a newline
RECURSIVE LineFrom(_, _)
LineFrom(s, a) ==
  IF a > Len(s) \/ s[a] = NL THEN <<>> ELSE <<s[a]>> \o LineFrom(s, a + 1)

\* entry.match(/COMMAND:\s+(.+)/): <<>> without a match, else <<group 1>>
MatchCommand(s) ==
  LET hits == {i \in 1..Len(s) : s[i] = CMDMARK /\ GroupStartAt(s, i) # 0}
  IN  IF hits = {} THEN <<>>
      ELSE LET i == CHOOSE h \in hits : \A k \in hits : h <= k
           IN  <<LineFrom(s, GroupStartAt(s, i))>>

\* entry.match(/\[(.*?)\]/)?.[1] || "??:??:??"
MatchBracket(s) ==
  LET closes(a) == {b \in (a + 1)..Len(s) :
                      s[b] = RBR /\ \A k \in (a + 1)..(b - 1) : s[k] # NL /\ s[k] # RBR}
      opens == {a \in 1..Len(s) : s[a] = OPEN /\ closes(a) # {}}
  IN  IF opens = {} THEN <<"??:??:??">>
      ELSE LET a == CHOOSE o \in opens : \A k \in opens : o <= k
               b == CHOOSE c \in closes(a) : TRUE
           IN  IF b = a + 1 THEN <<"??:??:??">> ELSE SubSeq(s, a + 1, b - 1)

RECURSIVE JoinNL(_)
JoinNL(ls) ==
  IF ls = <<>> THEN <<>>
  ELSE IF Len(ls) = 1 THEN ls[1]
  ELSE ls[1] \o <<NL>> \o JoinNL(Tail(ls))

RECURSIVE FilterOutput(_)
FilterOutput(ls) ==
  IF ls = <<>> THEN <<>>
  ELSE LET l == Head(ls)
           keep == /\ ~Includes(l, CMDMARK)
                   /\ \A k \in 1..Len(l) : ~HasTripleEq(l[k])
                   /\ Trim(l) # <<>>
       IN  (IF keep THEN <<l>> ELSE <<>>) \o FilterOutput(Tail(ls))

\* the output replay prints for one piece of the log
ReplayOutput(piece) == Trim(JoinNL(FilterOutput(SplitOn(piece, NL))))

\* the loop of replay over content.split("=== END ==="): the entries it prints
RECURSIVE ReplayPieces(_)
ReplayPieces(ps) ==
  IF ps = <<>> THEN <<>>
  ELSE LET piece == Head(ps)
           m == MatchCommand(piece)
       IN  (IF m = <<>> THEN <<>>
            ELSE <<[time |-> MatchBracket(piece), cmd |-> Trim(m[1]),
                    output |-> ReplayOutput(piece)]>>)
           \o ReplayPieces(Tail(ps))

ReplayEntries(content) == ReplayPieces(SplitOn(content, END))

\* ------------------------------------------------------------------ inputs
\* l.split("COMMAND:")[1].trim() on a line that includes "COMMAND:"
InputsCmd(l) == Trim(SplitOn(l, CMDMARK)[2])

\* the lines `inputs` prints for the lines ls of a log: [time, cmd]
RECURSIVE InputsLines(_)
InputsLines(ls) ==
  IF ls = <<>> THEN <<>>
  ELSE (IF Includes(Head(ls), CMDMARK)
        THEN <<[time |-> MatchBracket(Head(ls)), cmd |-> InputsCmd(Head(ls))]>>
        ELSE <<>>) \o InputsLines(Tail(ls))

\* ------------------------------------------------------------------ search
\* entry.match(/COMMAND:\s+([\s\S]*?)(?:OUTPUT:|$)/): <<>> without a match, else
\* <<group 1>>: the text behind the blanks up to the first "OUTPUT:", or to the
\* end of the piece
SearchMatch(s) ==
  LET hits == {i \in 1..Len(s) : s[i] = CMDMARK /\ SpaceRunEnd(s, i) > i}
  IN  IF hits = {} THEN <<>>
      ELSE LET i == CHOOSE h \in hits : \A k \in hits : h <= k
               a == SpaceRunEnd(s, i) + 1
               outs == {k \in a..Len(s) : s[k] = OUTPUTMARK}
               b == IF outs = {} THEN Len(s)
                    ELSE (CHOOSE k \in outs : \A m \in outs : k <= m) - 1
           IN  <<SubSeq(s, a, b)>>

\* entry.match(/OUTPUT:\s+([\s\S]*)/): <<>> without a match, else <<group 1>>
SearchOutput(s) ==
  LET hits == {i \in 1..Len(s) : s[i] = OUTPUTMARK /\ SpaceRunEnd(s, i) > i}
  IN  IF hits = {} THEN <<>>
      ELSE LET i == CHOOSE h \in hits : \A k \in hits : h <= k
           IN  <<Trim(SubSeq(s, SpaceRunEnd(s, i) + 1, Len(s)))>>

\* cmd.toLowerCase().includes(pattern.toLowerCase())
IncludesIgnoreCase(cmd, pattern) == Contains(toLowerCase(cmd), toLowerCase(pattern))

\* what `search` prints for the pieces ps of a log: [time, cmd, output]
RECURSIVE SearchPieces(_, _)
SearchPieces(ps, pattern) ==
  IF ps = <<>> THEN <<>>
  ELSE LET piece == Head(ps)
           m == SearchMatch(piece)
       IN  (IF m # <<>> /\ IncludesIgnoreCase(Trim(m[1]), pattern)
            THEN <<[time |-> MatchBracket(piece), cmd |-> Trim(m[1]),
                    output |-> SearchOutput(piece)]>>
            ELSE <<>>) \o SearchPieces(Tail(ps), pattern)

\* what `search-all` prints for the pieces ps of the file f: [file, cmd]
RECURSIVE SearchAllPieces(_, _, _)
SearchAllPieces(f, ps, pattern) ==
  IF ps = <<>> THEN <<>>
  ELSE LET m == MatchCommand(Head(ps))
       IN  (IF m # <<>> /\ IncludesIgnoreCase(Trim(m[1]), pattern)
            THEN <<[file |-> f, cmd |-> Trim(m[1])]>>
            ELSE <<>>) \o SearchAllPieces(f, Tail(ps), pattern)

\* ------------------------------------------------------------------ export
\* redactSecrets on tokens; in the texts of the model white space follows a
\* token that matches /(token\s*[:=]\s*)\S+/
RedactTok(t) ==
  IF t \in {SECRET, MASKED} THEN REDACTED
  ELSE IF t = COLONSECRET THEN COLONREDACTED
  ELSE t

redactSecrets(content) ==
  IF content = <<>> THEN <<>> ELSE [i \in 1..Len(content) |-> RedactTok(content[i])]

\* the filter of export: lines without "COMMAND:" and without "==="
RECURSIVE ExportFilter(_)
ExportFilter(ls) ==
  IF ls = <<>> THEN <<>>
  ELSE LET l == Head(ls)
           keep == ~Includes(l, CMDMARK) /\ \A k \in 1..Len(l) : ~HasTripleEq(l[k])
       IN  (IF keep THEN <<l>> ELSE <<>>) \o ExportFilter(Tail(ls))

ExportOutput(piece) == Trim(JoinNL(ExportFilter(SplitOn(piece, NL))))

\* the sections export writes for the pieces ps: heading, command, output block
RECURSIVE ExportSections(_)
ExportSections(ps) ==
  IF ps = <<>> THEN <<>>
  ELSE LET piece == Head(ps)
           m == MatchCommand(piece)
       IN  (IF m = <<>> THEN <<>>
            ELSE <<[time |-> MatchBracket(piece), cmd |-> Trim(m[1]),
                    output |-> ExportOutput(piece)]>>)
           \o ExportSections(Tail(ps))

\* the Markdown of a log: the title with the date, then the sections
ExportMarkdown(date, content) ==
  [title |-> date, sections |-> ExportSections(SplitOn(content, END))]

\* ------------------------------------------------------------ log contents
\* A log file as a reader may find it: blocks written by earlier sessions, a
\* block without a command marker, a last block cut short.
CodecEntries ==
  {[time |-> <<"10:00:00">>, cmd |-> <<"git", SP, "status">>, output |-> <<<<"a">>>>],
   [time |-> <<"10:00:00">>, cmd |-> <<"npm", SP, "install">>, output |-> <<>>],
   [time |-> <<"10:00:00">>, cmd |-> <<"git", SP, "status">>, output |-> <<<<>>, <<"a">>>>]}

RECURSIVE OutputText(_)
OutputText(ls) == IF ls = <<>> THEN <<>> ELSE Head(ls) \o <<NL>> \o OutputText(Tail(ls))

\* the block the recorder's appends leave for one entry that ran to completion
EncodeEntry(e) == EncodeHeader(e.time[1], e.cmd) \o OutputText(e.output) \o EndText

\* nothing is written behind a block cut short, nor once a reader has run
Appendable(d) == reader.op = "none" /\ ~HasOpenEntry(d)

Writable(d) == Appendable(d) /\ Len(recorded[d]) < MaxEntries

WriteEntry(d, e) ==
  /\ Writable(d)
  /\ logs' = [logs EXCEPT ![d] = @ \o EncodeEntry(e)]
  /\ recorded' = [recorded EXCEPT ![d] =
       Append(@, [time |-> e.time, cmd |-> e.cmd, text |-> OutputText(e.output),
                  closed |-> TRUE, chunks |-> Len(e.output)])]
  /\ UNCHANGED <<pc, st, sig, live, logFile, exitCode, outcome, stateFile, terminal,
                 clean, stopDone, reader, exports, rp, mask>>

\* the last block of the file stops after k tokens, before its end marker, or
\* (tail) inside its end marker
WritePartial(d, e, k, tail) ==
  /\ Appendable(d)
  /\ k \in 1..(Len(EncodeEntry(e)) - Len(EndText))
  /\ tail # <<>> => k = Len(EncodeEntry(e)) - Len(EndText)
  /\ logs' = [logs EXCEPT ![d] = @ \o SubSeq(EncodeEntry(e), 1, k) \o tail]
  /\ recorded' = [recorded EXCEPT ![d] =
       Append(@, [time |-> e.time, cmd |-> e.cmd, text |-> OutputText(e.output),
                  closed |-> FALSE, chunks |-> Len(e.output)])]
  /\ UNCHANGED <<pc, st, sig, live, logFile, exitCode, outcome, stateFile, terminal,
                 clean, stopDone, reader, exports, rp, mask>>

\* a block with no command marker: output and an end marker, no header
Orphans(d) ==
  Cardinality({i \in 1..Len(logs[d]) : logs[d][i] \in {END, STARTED}}) - Len(recorded[d])

WriteOrphan(d, block) ==
  /\ Writable(d)
  /\ Orphans(d) < MaxOrphans
  /\ logs' = [logs EXCEPT ![d] = @ \o block]
  /\ UNCHANGED <<pc, st, sig, live, logFile, exitCode, outcome, stateFile, terminal,
                 recorded, clean, stopDone, reader, exports, rp, mask>>

OrphanBlocks ==
  {<<"a", NL>> \o EndText,
   <<OPEN, "10:00:00", RBR, SP, "ls", NL, "a", NL>> \o EndText,
   <<STARTED, NL, NL>>}

PartialEntry == [time |-> <<"10:00:00">>, cmd |-> <<"git", SP, "status">>, output |-> <<<<"a">>>>]
PartialTails == {<<>>, <<ENDPART>>}

\* ----------------------------------------------------------------- readers
Decode(d) ==
  /\ reader' = [op |-> "parseSessionLog", entries |-> parseSessionLog(logs[d])]
  /\ UNCHANGED <<pc, st, sig, live, logFile, exitCode, outcome, stateFile, logs, terminal,
                 recorded, clean, stopDone, exports, rp, mask>>

\* variant: replay leaves a mark in the log it replayed
ReplayMarksLog(d) ==
  /\ reader' = [op |-> "replay", entries |-> ReplayEntries(logs[d])]
  /\ appendFileSync(d, <<ENDED, NL>>)
  /\ UNCHANGED <<pc, st, sig, live, logFile, exitCode, outcome, stateFile, terminal,
                 recorded, clean, stopDone, exports, rp, mask>>

Replay(d) ==
  /\ reader' = [op |-> "replay", entries |-> ReplayEntries(logs[d])]
  /\ UNCHANGED <<pc, st, sig, live, logFile, exitCode, outcome, stateFile, logs, terminal,
                 recorded, clean, stopDone, exports, rp, mask>>

\* fs.existsSync(sessionFileForDate(d)): a log exists once something was appended
existsSync(d) == logs[d] # <<>>

\* fs.readdirSync(SESSIONS_DIR), in directory order
DateOrder == <<"2025-10-04">>
SessionFiles == SelectSeq(DateOrder, existsSync)

Show(d) ==
  /\ reader' = [op |-> "show",
                entries |-> IF existsSync(d) THEN <<[text |-> logs[d]]>> ELSE <<>>]
  /\ UNCHANGED <<pc, st, sig, live, logFile, exitCode, outcome, stateFile, logs, terminal,
                 recorded, clean, stopDone, exports, rp, mask>>

Inputs(d) ==
  /\ reader' = [op |-> "inputs",
                entries |-> IF existsSync(d) THEN InputsLines(SplitOn(logs[d], NL)) ELSE <<>>]
  /\ UNCHANGED <<pc, st, sig, live, logFile, exitCode, outcome, stateFile, logs, terminal,
                 recorded, clean, stopDone, exports, rp, mask>>

Search(d, pattern) ==
  /\ reader' = [op |-> "search", pattern |-> pattern,
                entries |-> IF existsSync(d)
                            THEN SearchPieces(SplitOn(logs[d], END), pattern) ELSE <<>>]
  /\ UNCHANGED <<pc, st, sig, live, logFile, exitCode, outcome, stateFile, logs, terminal,
                 recorded, clean, stopDone, exports, rp, mask>>

RECURSIVE SearchAllFiles(_, _)
SearchAllFiles(fs, pattern) ==
  IF fs = <<>> THEN <<>>
  ELSE SearchAllPieces(Head(fs), SplitOn(logs[Head(fs)], END), pattern)
       \o SearchAllFiles(Tail(fs), pattern)

SearchAll(pattern) ==
  /\ reader' = [op |-> "search-all", pattern |-> pattern,
                entries |-> SearchAllFiles(SessionFiles, pattern)]
  /\ UNCHANGED <<pc, st, sig, live, logFile, exitCode, outcome, stateFile, logs, terminal,
                 recorded, clean, stopDone, exports, rp, mask>>

\* files.sort().reverse()
RECURSIVE Reverse(_)
Reverse(q) == IF q = <<>> THEN <<>> ELSE Reverse(Tail(q)) \o <<Head(q)>>

History ==
  /\ reader' = [op |-> "history",
                entries |-> [i \in 1..Len(SessionFiles) |-> [file |-> Reverse(SessionFiles)[i]]]]
  /\ UNCHANGED <<pc, st, sig, live, logFile, exitCode, outcome, stateFile, logs, terminal,
                 recorded, clean, stopDone, exports, rp, mask>>

Export(d) ==
  /\ existsSync(d)
  /\ exports' = [exports EXCEPT ![d] = <<ExportMarkdown(d, logs[d])>>]
  /\ UNCHANGED <<pc, st, sig, live, logFile, exitCode, outcome, stateFile, logs, terminal,
                 recorded, clean, stopDone, reader, rp, mask>>

ExportAll ==
  /\ SessionFiles # <<>>
  /\ exports' = [d \in Dates |->
                   IF existsSync(d) THEN <<ExportMarkdown(d, logs[d])>>
                   ELSE exports[d]]
  /\ UNCHANGED <<pc, st, sig, live, logFile, exitCode, outcome, stateFile, logs, terminal,
                 recorded, clean, stopDone, reader, rp, mask>>

\* ------------------------------------- the sessions directory (ESM variant)
\* export and export-all of the ESM variant write session-<date>.md into
\* SESSIONS_DIR, next to session-<date>.log
\* `# Session Log - ${date}\n\n\`\`\`\n${redacted.trim()}\n\`\`\`\n`
MarkdownInDir(date, raw) ==
  <<MDTITLE, date, NL, NL, FENCE, NL>> \o Trim(redactSecrets(raw)) \o <<NL, FENCE, NL>>

InSessionsDir(d) == exports[d] # <<>> /\ "dir" \in DOMAIN exports[d][1]

ExportInDir(d) ==
  /\ existsSync(d)
  /\ exports' = [exports EXCEPT ![d] = <<[dir |-> "sessions", text |-> MarkdownInDir(d, logs[d])]>>]
  /\ UNCHANGED <<pc, st, sig, live, logFile, exitCode, outcome, stateFile, logs, terminal,
                 recorded, clean, stopDone, reader, rp, mask>>

ExportAllInDir ==
  /\ SessionFiles # <<>>
  /\ exports' = [d \in Dates |->
                   IF existsSync(d)
                   THEN <<[dir |-> "sessions", text |-> MarkdownInDir(d, logs[d])]>>
                   ELSE exports[d]]
  /\ UNCHANGED <<pc, st, sig, live, logFile, exitCode, outcome, stateFile, logs, terminal,
                 recorded, clean, stopDone, reader, rp, mask>>

\* summarize writes summary-<date>.txt: no file whose name starts with "session-"
Summarize(d) ==
  /\ existsSync(d)
  /\ UNCHANGED vars

\* fs.readdirSync(SESSIONS_DIR).filter(f => f.startsWith("session-")), sorted:
\* session-<d>.log comes before session-<d>.md
RECURSIVE DirFiles(_)
DirFiles(ds) ==
  IF ds = <<>> THEN <<>>
  ELSE (IF existsSync(Head(ds)) THEN <<[date |-> Head(ds), ext |-> "log"]>> ELSE <<>>)
       \o (IF InSessionsDir(Head(ds)) THEN <<[date |-> Head(ds), ext |-> "md"]>> ELSE <<>>)
       \o DirFiles(Tail(ds))

\* fs.readFileSync(path.join(SESSIONS_DIR, file))
FileText(f) == IF f.ext = "log" THEN logs[f.date] ELSE exports[f.date][1].text

HistoryInDir ==
  /\ reader' = [op |-> "history", entries |-> Reverse(DirFiles(DateOrder))]
  /\ UNCHANGED <<pc, st, sig, live, logFile, exitCode, outcome, stateFile, logs, terminal,
                 recorded, clean, stopDone, exports, rp, mask>>

\* what search-all of the ESM variant prints for the pieces ps of the file f:
\* cmd.includes(pattern), the case kept
RECURSIVE SearchDirPieces(_, _, _)
SearchDirPieces(f, ps, pattern) ==
  IF ps = <<>> THEN <<>>
  ELSE LET m == MatchCommand(Head(ps))
       IN  (IF m # <<>> /\ Contains(Trim(m[1]), pattern)
            THEN <<[file |-> f, cmd |-> Trim(m[1])]>>
            ELSE <<>>) \o SearchDirPieces(f, Tail(ps), pattern)

RECURSIVE SearchDirFiles(_, _)
SearchDirFiles(fs, pattern) ==
  IF fs = <<>> THEN <<>>
  ELSE SearchDirPieces(Head(fs), SplitOn(FileText(Head(fs)), END), pattern)
       \o SearchDirFiles(Tail(fs), pattern)

SearchAllInDir(pattern) ==
  /\ reader' = [op |-> "search-all", pattern |-> pattern,
                entries |-> SearchDirFiles(DirFiles(DateOrder), pattern)]
  /\ UNCHANGED <<pc, st, sig, live, logFile, exitCode, outcome, stateFile, logs, terminal,
                 recorded, clean, stopDone, exports, rp, mask>>

\* ------------------------------------------ the variant with the ERROR: marker
\* maskSensitive of this variant: `$1=******`
MaskTokMasking(t) == IF t = SECRET THEN MASKEDLONG ELSE t

maskSensitiveMasking(text) ==
  IF text = <<>> THEN text ELSE [i \in 1..Len(text) |-> MaskTokMasking(text[i])]

\* what the data handlers append for one chunk [stream, text]
EncodeChunkMasking(c) ==
  IF c.stream = "stderr" THEN <<ERRORMARK, NL>> \o maskSensitiveMasking(c.text)
  ELSE maskSensitiveMasking(c.text)

RECURSIVE EncodeChunksMasking(_)
EncodeChunksMasking(cs) ==
  IF cs = <<>> THEN <<>> ELSE EncodeChunkMasking(Head(cs)) \o EncodeChunksMasking(Tail(cs))

\* `\n=== [${nowTime()}] COMMAND: ${maskSensitive(cmd)} ===\n`, the chunks, `=== END ===\n`
EncodeEntryMasking(e) ==
  <<NL, OPEN, e.time[1], RBR, SP, CMDMARK, SP>> \o maskSensitiveMasking(e.cmd)
    \o <<SP, HEADEND, NL>> \o EncodeChunksMasking(e.chunks) \o <<END, NL>>

\* the boundary lines of a session (the name of the tool in them is TTM)
SessionStartMasking(d) ==
  /\ Appendable(d)
  /\ logs[d] = <<>>
  /\ logs' = [logs EXCEPT ![d] = @ \o <<NL, STARTED, NL>>]
  /\ UNCHANGED <<pc, st, sig, live, logFile, exitCode, outcome, stateFile, terminal,
                 recorded, clean, stopDone, reader, exports, rp, mask>>

SessionEndMasking(d) ==
  /\ Appendable(d)
  /\ Includes(logs[d], STARTED)
  /\ ~Includes(logs[d], ENDED)
  /\ logs' = [logs EXCEPT ![d] = @ \o <<ENDED, NL>>]
  /\ UNCHANGED <<pc, st, sig, live, logFile, exitCode, outcome, stateFile, terminal,
                 recorded, clean, stopDone, reader, exports, rp, mask>>

\* an entry of the session that ran to completion
WriteEntryMasking(d, e) ==
  /\ Writable(d)
  /\ Includes(logs[d], STARTED)
  /\ ~Includes(logs[d], ENDED)
  /\ logs' = [logs EXCEPT ![d] = @ \o EncodeEntryMasking(e)]
  /\ recorded' = [recorded EXCEPT ![d] =
       Append(@, [time |-> e.time, cmd |-> maskSensitiveMasking(e.cmd),
                  text |-> EncodeChunksMasking(e.chunks), closed |-> TRUE,
                  chunks |-> Len(e.chunks),
                  errs |-> Len(SelectSeq(e.chunks, LAMBDA c : c.stream = "stderr"))])]
  /\ UNCHANGED <<pc, st, sig, live, logFile, exitCode, outcome, stateFile, terminal,
                 clean, stopDone, reader, exports, rp, mask>>

\* what search and search-all print for the pieces ps: the command, with the
\* tag [ERROR] when the piece includes "ERROR:"
RECURSIVE SearchPiecesMasking(_, _)
SearchPiecesMasking(ps, pattern) ==
  IF ps = <<>> THEN <<>>
  ELSE LET m == MatchCommand(Head(ps))
       IN  (IF m # <<>> /\ Contains(Trim(m[1]), pattern)
            THEN <<[cmd |-> Trim(m[1]), error |-> Includes(Head(ps), ERRORMARK)]>>
            ELSE <<>>) \o SearchPiecesMasking(Tail(ps), pattern)

SearchMasking(d, pattern) ==
  /\ reader' = [op |-> "search", pattern |-> pattern,
                entries |-> IF existsSync(d)
                            THEN SearchPiecesMasking(SplitOn(logs[d], END), pattern)
                            ELSE <<>>]
  /\ UNCHANGED <<pc, st, sig, live, logFile, exitCode, outcome, stateFile, logs, terminal,
                 recorded, clean, stopDone, exports, rp, mask>>

RECURSIVE SearchFilesMasking(_, _)
SearchFilesMasking(fs, pattern) ==
  IF fs = <<>> THEN <<>>
  ELSE SearchPiecesMasking(SplitOn(logs[Head(fs)], END), pattern)
       \o SearchFilesMasking(Tail(fs), pattern)

SearchAllMasking(pattern) ==
  /\ reader' = [op |-> "search-all", pattern |-> pattern,
                entries |-> SearchFilesMasking(SessionFiles, pattern)]
  /\ UNCHANGED <<pc, st, sig, live, logFile, exitCode, outcome, stateFile, logs, terminal,
                 recorded, clean, stopDone, exports, rp, mask>>

\* text.split("=== END ===").map(s => s.trim()).filter(Boolean)
RECURSIVE TrimmedPieces(_)
TrimmedPieces(ps) ==
  IF ps = <<>> THEN <<>>
  ELSE (IF Trim(Head(ps)) # <<>> THEN <<[text |-> Trim(Head(ps))]>> ELSE <<>>)
       \o TrimmedPieces(Tail(ps))

\* entries.slice(-n), n > 0
SliceLast(es, n) == IF n >= Len(es) THEN es ELSE SubSeq(es, Len(es) - n + 1, Len(es))

\* show --last n: the last n pieces when n > 0, else the whole text
ShowLast(d, n) ==
  /\ existsSync(d)
  /\ reader' = [op |-> "show", n |-> n,
                entries |-> IF n > 0
                            THEN SliceLast(TrimmedPieces(SplitOn(logs[d], END)), n)
                            ELSE <<[text |-> logs[d]]>>]
  /\ UNCHANGED <<pc, st, sig, live, logFile, exitCode, outcome, stateFile, logs, terminal,
                 recorded, clean, stopDone, exports, rp, mask>>

\* ------------------------------------------------------- replay, step by step
\* rp.pc: "none", "loop" (between two entries), "sleep" (in the await of the
\* delay), "done" (returned), "notfound" (returned: no such file)
ReplayStart(d, fast) ==
  /\ rp.pc = "none"
  /\ existsSync(d)
  /\ rp' = [pc |-> "loop", fast |-> fast, content |-> logs[d],
            todo |-> ReplayEntries(logs[d]), printed |-> <<>>, delays |-> 0,
            notice |-> FALSE]
  /\ UNCHANGED <<pc, st, sig, live, logFile, exitCode, outcome, stateFile, logs, terminal,
                 recorded, clean, stopDone, reader, exports, mask>>

ReplayNotFound(d) ==
  /\ rp.pc = "none"
  /\ ~existsSync(d)
  /\ rp' = [rp EXCEPT !.pc = "notfound"]
  /\ UNCHANGED <<pc, st, sig, live, logFile, exitCode, outcome, stateFile, logs, terminal,
                 recorded, clean, stopDone, reader, exports, mask>>

\* variant: the delay is awaited in fast mode too
SleepsAfterEntryAlways(fast) == TRUE

\* if (!opts.fast) await new Promise(r => setTimeout(r, ...))
SleepsAfterEntry(fast) == ~fast

\* one turn of the loop: the entry is printed, then the delay starts
ReplayPrint ==
  /\ rp.pc = "loop"
  /\ rp.todo # <<>>
  /\ rp' = [rp EXCEPT !.printed = Append(@, Head(rp.todo)),
                      !.todo = Tail(@),
                      !.delays = IF SleepsAfterEntry(rp.fast) THEN @ + 1 ELSE @,
                      !.pc = IF SleepsAfterEntry(rp.fast) THEN "sleep" ELSE "loop"]
  /\ UNCHANGED <<pc, st, sig, live, logFile, exitCode, outcome, stateFile, logs, terminal,
                 recorded, clean, stopDone, reader, exports, mask>>

\* the timer of the delay fires
ReplayWake ==
  /\ rp.pc = "sleep"
  /\ rp' = [rp EXCEPT !.pc = "loop"]
  /\ UNCHANGED <<pc, st, sig, live, logFile, exitCode, outcome, stateFile, logs, terminal,
                 recorded, clean, stopDone, reader, exports, mask>>

\* after the loop: the completion notice
ReplayDone ==
  /\ rp.pc = "loop"
  /\ rp.todo = <<>>
  /\ rp' = [rp EXCEPT !.notice = TRUE, !.pc = "done"]
  /\ UNCHANGED <<pc, st, sig, live, logFile, exitCode, outcome, stateFile, logs, terminal,
                 recorded, clean, stopDone, reader, exports, mask>>

\* -------------------------------------------------------------------- next
\* the bounds of the model: entries per log, chunks per entry
CanOpen(p, n) == pc[p] = "loop" /\ Len(recorded[logFile[p]]) < n

RECURSIVE SumChunks(_)
SumChunks(es) == IF es = <<>> THEN 0 ELSE Head(es).chunks + SumChunks(Tail(es))

CanEmit(p, c, n) ==
  /\ pc[p] \in {"loop", "closing"}
  /\ c \in live[p]
  /\ SumChunks(recorded[logFile[p]]) < n

\* every invocation, interleaved
Next ==
  \/ \E p \in Procs : StartRead(p)
  \/ \E p \in Procs : StartConflict(p)
  \/ \E p \in Procs : StartAccept(p)
  \/ \E p \in Procs, line \in Lines : LineEmpty(p, line)
  \/ \E p \in Procs, line \in Lines : LineExit(p, line)
  \/ \E p \in Procs, line \in Lines, t \in Times : CanOpen(p, MaxCmds) /\ LineCommand(p, line, t)
  \/ \E p \in Procs, c \in 1..MaxCmds, s \in Chunks : CanEmit(p, c, MaxChunks) /\ StdoutData(p, c, s)
  \/ \E p \in Procs, c \in 1..MaxCmds, s \in Chunks : CanEmit(p, c, MaxChunks) /\ StderrData(p, c, s)
  \/ \E p \in Procs, c \in 1..MaxCmds : ChildClose(p, c)
  \/ \E p \in Procs : ExternalSignal(p)
  \/ \E p \in Procs : gracefulExit(p)
  \/ \E p \in Procs : StopRead(p)
  \/ \E p \in Procs : StopNotFound(p)
  \/ \E p \in Procs, permitted \in BOOLEAN : StopKill(p, permitted)

Spec == Init /\ [][Next]_vars

\* the state store under interleaved `start` and `stop`: sessions without commands
NextStore ==
  \/ \E p \in Procs : StartRead(p)
  \/ \E p \in Procs : StartConflict(p)
  \/ \E p \in Procs : StartAccept(p)
  \/ \E p \in Procs, line \in Lines : LineEmpty(p, line)
  \/ \E p \in Procs, line \in Lines : LineExit(p, line)
  \/ \E p \in Procs : ExternalSignal(p)
  \/ \E p \in Procs : gracefulExit(p)
  \/ \E p \in Procs : StopRead(p)
  \/ \E p \in Procs : StopNotFound(p)
  \/ \E p \in Procs, permitted \in BOOLEAN : StopKill(p, permitted)

SpecStore == Init /\ [][NextStore]_vars

\* one recording session: a single `start`, its lines, its children, its signals
NextSession ==
  \/ StartRead(1)
  \/ StartAccept(1)
  \/ \E line \in Lines : LineEmpty(1, line)
  \/ \E line \in Lines : LineExit(1, line)
  \/ \E line \in Lines, t \in Times : CanOpen(1, SessCmds) /\ LineCommand(1, line, t)
  \/ \E c \in 1..SessCmds, s \in SessionChunks : CanEmit(1, c, SessChunks) /\ StdoutData(1, c, s)
  \/ \E c \in 1..SessCmds, s \in SessionChunks : CanEmit(1, c, SessChunks) /\ StderrData(1, c, s)
  \/ \E c \in 1..SessCmds : ChildClose(1, c)
  \/ ExternalSignal(1)
  \/ gracefulExit(1)

SpecSession == Init /\ [][NextSession]_vars

\* the readers over the log contents a file can hold
NextCodec ==
  \/ \E d \in Dates, e \in CodecEntries : WriteEntry(d, e)
  \/ \E d \in Dates, k \in 1..Len(EncodeEntry(PartialEntry)), tail \in PartialTails : WritePartial(d, PartialEntry, k, tail)
  \/ \E d \in Dates, b \in OrphanBlocks : WriteOrphan(d, b)
  \/ \E d \in Dates : Decode(d)
  \/ \E d \in Dates : Replay(d)

SpecCodec == Init /\ [][NextCodec]_vars

\* search, inputs and export over the log contents a file can hold
QueryEntries ==
  {[time |-> <<"10:00:00">>, cmd |-> <<"git", SP, "status">>, output |-> <<<<"a">>>>],
   [time |-> <<"10:00:00">>, cmd |-> <<"npm", SP, "install">>, output |-> <<<<"git", SP, "x">>>>],
   [time |-> <<"10:00:00">>, cmd |-> <<"echo", SP, "x">>, output |-> <<<<CMDMARK, SP, "y">>>>],
   [time |-> <<"10:00:00">>, cmd |-> <<"curl">>, output |-> <<<<COLONSECRET>>, <<MASKED>>>>]}
Patterns == {<<"git">>, <<"install">>}

NextQuery ==
  \/ \E d \in Dates, e \in QueryEntries : WriteEntry(d, e)
  \/ \E d \in Dates, b \in OrphanBlocks : WriteOrphan(d, b)
  \/ \E d \in Dates : Inputs(d)
  \/ \E d \in Dates, pattern \in Patterns : Search(d, pattern)
  \/ \E d \in Dates : Export(d)
  \/ ExportAll

SpecQuery == Init /\ [][NextQuery]_vars

\* replay, turn by turn, over the log contents a file can hold
NextReplay ==
  \/ \E d \in Dates, e \in CodecEntries : rp.pc = "none" /\ WriteEntry(d, e)
  \/ \E d \in Dates, tail \in PartialTails :
       /\ rp.pc = "none"
       /\ WritePartial(d, PartialEntry, Len(EncodeEntry(PartialEntry)) - Len(EndText), tail)
  \/ \E d \in Dates, b \in OrphanBlocks : rp.pc = "none" /\ WriteOrphan(d, b)
  \/ \E d \in Dates, fast \in BOOLEAN : ReplayStart(d, fast)
  \/ \E d \in Dates : ReplayNotFound(d)
  \/ ReplayPrint
  \/ ReplayWake
  \/ ReplayDone

SpecReplay == Init /\ [][NextReplay]_vars

\* the read-only commands while a session records
ReadPatterns == {<<"echo">>, <<"a">>}

NextRead ==
  \/ StartRead(1)
  \/ StartAccept(1)
  \/ \E line \in Lines : LineExit(1, line)
  \/ \E line \in Lines, t \in Times : CanOpen(1, MaxCmds) /\ LineCommand(1, line, t)
  \/ \E c \in 1..MaxCmds, s \in Chunks : CanEmit(1, c, MaxChunks) /\ StdoutData(1, c, s)
  \/ \E c \in 1..MaxCmds, s \in Chunks : CanEmit(1, c, MaxChunks) /\ StderrData(1, c, s)
  \/ \E c \in 1..MaxCmds : ChildClose(1, c)
  \/ \E d \in Dates : Replay(d)
  \/ \E d \in Dates : Show(d)
  \/ \E d \in Dates : Inputs(d)
  \/ \E d \in Dates, pattern \in ReadPatterns : Search(d, pattern)
  \/ \E pattern \in ReadPatterns : SearchAll(pattern)
  \/ History

SpecRead == Init /\ [][NextRead]_vars

\* start and stop over a state file whose content is not a session record
StateContents ==
  {NoSession} \cup {<<[raw |-> c]>> : c \in {"", "{not json", "null", "5", "[]", "{}"}}

InitLoad ==
  /\ InitProcs
  /\ stateFile \in StateContents
  /\ mask = NoMask

NextLoad ==
  \/ \E p \in Procs : StartRead(p)
  \/ \E p \in Procs : StartConflict(p)
  \/ \E p \in Procs : StartAccept(p)
  \/ \E p \in Procs : StartThrows(p)
  \/ \E p \in Procs, line \in Lines : LineExit(p, line)
  \/ \E p \in Procs : StopRead(p)
  \/ \E p \in Procs : StopNotFound(p)
  \/ \E p \in Procs : StopThrows(p)
  \/ \E p \in Procs, permitted \in BOOLEAN : StopKill(p, permitted)

SpecLoad == InitLoad /\ [][NextLoad]_vars

\* history and search-all of the ESM variant beside its exports
NextDir ==
  \/ \E d \in Dates, e \in QueryEntries : WriteEntry(d, e)
  \/ \E d \in Dates : ExportInDir(d)
  \/ ExportAllInDir
  \/ \E d \in Dates : Summarize(d)
  \/ HistoryInDir
  \/ \E pattern \in Patterns : SearchAllInDir(pattern)

SpecDir == Init /\ [][NextDir]_vars

\* every command of the tool: a recorder (pid 1), a stop (pid 2), and one
\* read or export command
NoQueryYet == reader.op = "none" /\ \A d \in Dates : exports[d] = <<>>

NextGrow ==
  \/ StartRead(1)
  \/ StartAccept(1)
  \/ \E line \in Lines : LineEmpty(1, line)
  \/ \E line \in Lines : LineExit(1, line)
  \/ \E line \in Lines, t \in Times : CanOpen(1, MaxCmds) /\ LineCommand(1, line, t)
  \/ \E c \in 1..MaxCmds, s \in Chunks : CanEmit(1, c, MaxChunks) /\ StdoutData(1, c, s)
  \/ \E c \in 1..MaxCmds, s \in Chunks : CanEmit(1, c, MaxChunks) /\ StderrData(1, c, s)
  \/ \E c \in 1..MaxCmds : ChildClose(1, c)
  \/ gracefulExit(1)
  \/ StopRead(2)
  \/ StopNotFound(2)
  \/ \E permitted \in BOOLEAN : StopKill(2, permitted)
  \/ \E d \in Dates : NoQueryYet /\ Replay(d)
  \/ \E d \in Dates : NoQueryYet /\ Show(d)
  \/ \E d \in Dates : NoQueryYet /\ Inputs(d)
  \/ \E d \in Dates, pattern \in ReadPatterns : NoQueryYet /\ Search(d, pattern)
  \/ \E pattern \in ReadPatterns : NoQueryYet /\ SearchAll(pattern)
  \/ NoQueryYet /\ History
  \/ \E d \in Dates : NoQueryYet /\ Export(d)
  \/ NoQueryYet /\ ExportAll

SpecGrow == Init /\ [][NextGrow]_vars

\* search, search-all and show --last of the variant with the ERROR: marker
MaskingEntries ==
  {[time |-> <<"10:00:00">>, cmd |-> <<"ls">>,
    chunks |-> <<[stream |-> "stdout", text |-> <<"a", NL>>]>>],
   [time |-> <<"10:00:00">>, cmd |-> <<"ls", SP, "x">>,
    chunks |-> <<[stream |-> "stdout", text |-> <<"a", NL>>],
                 [stream |-> "stderr", text |-> <<"no", SP, "x", NL>>]>>],
   [time |-> <<"10:00:00">>, cmd |-> <<"make">>,
    chunks |-> <<[stream |-> "stdout", text |-> <<ERRORMARK, SP, "x", NL>>]>>]}
MaskingPatterns == {<<"ls">>, <<"make">>}

NextMasking ==
  \/ \E d \in Dates : SessionStartMasking(d)
  \/ \E d \in Dates, e \in MaskingEntries : WriteEntryMasking(d, e)
  \/ \E d \in Dates : SessionEndMasking(d)
  \/ \E d \in Dates, pattern \in MaskingPatterns : SearchMasking(d, pattern)
  \/ \E pattern \in MaskingPatterns : SearchAllMasking(pattern)
  \/ \E d \in Dates, n \in 0..MaxEntries : ShowLast(d, n)

SpecMasking == Init /\ [][NextMasking]_vars

\* start and stop, with the input stream of a recorder coming to its end
NextEof ==
  \/ \E p \in Procs : StartRead(p)
  \/ \E p \in Procs : StartConflict(p)
  \/ \E p \in Procs : StartAccept(p)
  \/ \E p \in Procs, line \in Lines : LineExit(p, line)
  \/ \E p \in Procs : InputEnd(p)
  \/ \E p \in Procs : ExternalSignal(p)
  \/ \E p \in Procs : gracefulExit(p)
  \/ \E p \in Procs : StopRead(p)
  \/ \E p \in Procs : StopNotFound(p)
  \/ \E p \in Procs, permitted \in BOOLEAN : StopKill(p, permitted)

SpecEof == Init /\ [][NextEof]_vars

\* the line handler and the data handlers of one recorder
NextLines ==
  \/ StartRead(1)
  \/ StartAccept(1)
  \/ \E line \in Lines : LineEmpty(1, line)
  \/ \E line \in Lines : LineExit(1, line)
  \/ \E line \in Lines, t \in Times : CanOpen(1, MaxCmds) /\ LineCommand(1, line, t)
  \/ \E c \in 1..MaxCmds, s \in SessionChunks : CanEmit(1, c, SessChunks) /\ StdoutData(1, c, s)
  \/ \E c \in 1..MaxCmds, s \in SessionChunks : CanEmit(1, c, SessChunks) /\ StderrData(1, c, s)
  \/ \E c \in 1..MaxCmds : ChildClose(1, c)

SpecLines == Init /\ [][NextLines]_vars

\* ---------------------------------------------------- maskSensitive on a text
InitMask ==
  /\ InitProcs
  /\ stateFile = NoSession
  /\ mask \in MaskInputs

MaskLogify ==
  /\ mask.by = "none"
  /\ mask' = [mask EXCEPT !.out = MaskText(mask.text), !.by = "logify"]
  /\ UNCHANGED <<pc, st, sig, live, logFile, exitCode, outcome, stateFile, logs, terminal,
                 recorded, clean, stopDone, reader, exports, rp>>

MaskTTM ==
  /\ mask.by = "none"
  /\ mask' = [mask EXCEPT !.out = MaskTextTTM(mask.text), !.by = "ttm"]
  /\ UNCHANGED <<pc, st, sig, live, logFile, exitCode, outcome, stateFile, logs, terminal,
                 recorded, clean, stopDone, reader, exports, rp>>

NextMask == MaskLogify \/ MaskTTM

SpecMask == InitMask /\ [][NextMask]_vars


\* ------------------------------------------------------------------ claims
Recording(p) == pc[p] = "loop"

\* the text a step appended to the log file f
Added(f) == SubSeq(logs'[f], Len(logs[f]) + 1, Len(logs'[f]))

\* C1: under every interleaving of start and stop invocations at most one
\* recorder is in its interactive loop (Prompting or Running) at any time.
C1_AtMostOneRecorder == Cardinality({p \in Procs : Recording(p)}) <= 1

\* C2: a start that loaded an activeSession record fails with Conflict: it exits
\* with code 1 and its step leaves the state file and every log as they were
\* and spawns no child.
C2_StartConflict ==
  [][\A p \in Procs :
       (pc[p] = "start_read" /\ st[p] # NoSession /\ pc'[p] # pc[p]) =>
         /\ pc'[p] = "exited"
         /\ outcome'[p] = "Conflict"
         /\ exitCode'[p] = 1
         /\ stateFile' = stateFile
         /\ logs' = logs
         /\ live' = live
         /\ recorded' = recorded]_vars

C2_Witness ==
  \E p \in Procs : outcome[p] = "Conflict" /\ stateFile # NoSession /\ stateFile[1].pid # p

\* C3: a stop that loaded no active session reports it, exits with code 1,
\* signals no process and leaves the state file as it was (creates none).
C3_StopNotFound ==
  [][\A p \in Procs :
       (pc[p] = "stop_read" /\ st[p] = NoSession /\ pc'[p] # pc[p]) =>
         /\ pc'[p] = "exited"
         /\ outcome'[p] = "NotFound"
         /\ exitCode'[p] = 1
         /\ sig' = sig
         /\ stateFile' = stateFile]_vars

C3_Witness ==
  \E p \in Procs : outcome[p] = "NotFound" /\ exitCode[p] = 1 /\ stateFile = NoSession

\* C4: once a stop that loaded a record completes, the state store is empty,
\* whether the signal was delivered or the kill threw; a start that reads the
\* state after that stop, with no start writing in between, reads no session and
\* is therefore not rejected with Conflict.
C4_StopAlwaysClears ==
  [][/\ stopDone' => stateFile' = NoSession
     /\ \A p \in Procs :
          (pc[p] = "new" /\ pc'[p] = "start_read" /\ stopDone) => st'[p] = NoSession
     /\ \A p \in Procs : outcome'[p] = "Conflict" => st'[p] # NoSession]_vars

C4_Witness ==
  \E p, q, r \in Procs :
    /\ outcome[p] = "KillFailed"
    /\ pc[st[p][1].pid] = "loop"
    /\ outcome[q] = "Started" /\ q > p /\ r < p /\ st[p][1].pid = r

\* C5: when a termination signal reaches the recorder while an entry is open,
\* the handler seals the entry with the end marker, appends the session-ended
\* boundary after it and clears the state before the process exits.
C5_SignalSealsOpenEntry ==
  [][\A p \in Procs :
       (pc[p] \in {"loop", "closing"} /\ sig[p] /\ live[p] # {} /\ pc'[p] = "exited") =>
         /\ \E i, j \in 1..Len(Added(logFile[p])) :
              i < j /\ Added(logFile[p])[i] = END /\ Added(logFile[p])[j] = ENDED
         /\ stateFile' = NoSession]_vars

\* C6: at most one child process spawned by a recorder is alive at a time.
C6_OneChildAtATime == \A p \in Procs : Cardinality(live[p]) <= 1

\* the entries a log should decode to: every entry opened, with its text in lines
LinesOf(text) ==
  LET ls == SplitOn(text, NL)
  IN  IF ls[Len(ls)] = <<>> THEN SubSeq(ls, 1, Len(ls) - 1) ELSE ls

Expected(d) ==
  [i \in 1..Len(recorded[d]) |->
     [time |-> recorded[d][i].time, cmd |-> recorded[d][i].cmd,
      output |-> LinesOf(recorded[d][i].text)]]

OneAtATimeToCompletion(d) ==
  /\ clean[d]
  /\ \A i \in 1..Len(recorded[d]) : recorded[d][i].closed

NoEndMarkerText(d) ==
  \A i \in 1..Len(recorded[d]) : ~Includes(recorded[d][i].text, END)

\* C7: when the commands ran one at a time to completion and no output line
\* contains end-marker text, parseSessionLog of the log returns exactly the
\* recorded entries in order (timestamp, masked command, masked output lines).
C7_RoundTrip ==
  \A d \in Dates :
    (OneAtATimeToCompletion(d) /\ NoEndMarkerText(d)) =>
      parseSessionLog(logs[d]) = Expected(d)

\* C10: every output chunk reaches the terminal raw and the log masked, and no
\* text is in a log that did not pass through maskSensitive.
C10_DualPath ==
  [][/\ terminal' # terminal =>
          \E s \in SessionChunks, f \in Dates :
            /\ terminal' = terminal \o s
            /\ logs' = [logs EXCEPT ![f] = @ \o maskSensitive(s)]
     /\ \A d \in Dates : ~Includes(logs'[d], SECRET)]_vars

C10_Witness ==
  \E d \in Dates :
    /\ Includes(terminal, SECRET)
    /\ Includes(logs[d], MASKED)
    /\ \E i \in 1..Len(recorded[d]) : Includes(recorded[d][i].text, MASKED)

\* the entries of a log that were closed by an end marker, as a decoder returns them
RECURSIVE ClosedOf(_)
ClosedOf(es) ==
  IF es = <<>> THEN <<>>
  ELSE (IF Head(es).closed
        THEN <<[time |-> Head(es).time, cmd |-> Head(es).cmd,
                output |-> LinesOf(Head(es).text)]>>
        ELSE <<>>) \o ClosedOf(Tail(es))

\* C8: parseSessionLog of a log cut short inside its last entry returns every
\* earlier, terminated entry unchanged and in order.
C8_TruncatedDecode ==
  \A d \in Dates :
    (reader.op = "parseSessionLog" /\ HasOpenEntry(d)) =>
      reader.entries = ClosedOf(recorded[d])

C8_Witness ==
  \E d \in Dates :
    /\ reader.op = "parseSessionLog"
    /\ HasOpenEntry(d)
    /\ Len(reader.entries) = 2
    /\ Includes(logs[d], ENDPART)

HeadersOf(es) == [i \in 1..Len(es) |-> [time |-> es[i].time, cmd |-> es[i].cmd]]

\* C9: an unterminated trailing entry and a block with no command marker are
\* emitted neither by parseSessionLog nor by replay.
C9_IncompleteOmitted ==
  \A d \in Dates :
    reader.op # "none" => HeadersOf(reader.entries) = HeadersOf(ClosedOf(recorded[d]))

\* C11: the output of maskSensitive on a text with a credential-like part
\* (key=value with key token/key/password/pwd/secret, an email address, a hex
\* string of 32 characters or more, a base64-like token of 20 or more) does
\* not contain the sensitive part.
C11_MaskRemovesSecret == mask.by # "none" => ~Contains(mask.out, mask.secret)

\* C12: export and export-all write the Markdown of the redacted log: the whole
\* log text passes through the redaction step before the Markdown is made.
C12_ExportRedacts ==
  [][\A d \in Dates :
       exports'[d] # exports[d] =>
         exports'[d] = <<ExportMarkdown(d, redactSecrets(logs[d]))>>]_vars

\* the commands of the recorded entries whose command contains the pattern
RECURSIVE CmdsMatching(_, _)
CmdsMatching(es, pattern) ==
  IF es = <<>> THEN <<>>
  ELSE (IF IncludesIgnoreCase(Head(es).cmd, pattern) THEN <<Head(es).cmd>> ELSE <<>>)
       \o CmdsMatching(Tail(es), pattern)

\* C13: search reports exactly the entries whose command contains the pattern,
\* whatever their output contains: the command lines it prints are the commands
\* of those entries, in order.
C13_SearchByCommand ==
  \A d \in Dates :
    reader.op = "search" =>
      [i \in 1..Len(reader.entries) |-> LineFrom(reader.entries[i].cmd, 1)]
        = CmdsMatching(recorded[d], reader.pattern)

\* C14: inputs prints one line per command entry of the log, in log order,
\* showing the command of that entry, and no other line.
C14_InputsOnePerEntry ==
  \A d \in Dates :
    reader.op = "inputs" =>
      [i \in 1..Len(reader.entries) |-> reader.entries[i].cmd]
        = [i \in 1..Len(recorded[d]) |-> recorded[d][i].cmd]

\* C15: in fast mode replay awaits no delay at all; in timed mode a delay is
\* awaited and over in each gap between two consecutive entries: when the
\* entry number k + 1 is printed, k delays were started and none is pending.
C15_ReplayDelays ==
  [][/\ rp'.fast => rp'.delays = 0
     /\ (~rp.fast /\ rp.printed # <<>> /\ rp'.printed # rp.printed) =>
          rp.pc = "loop" /\ rp.delays = Len(rp.printed)]_vars

C15_Witness ==
  rp.pc = "done" /\ ~rp.fast /\ Len(rp.printed) = 2 /\ rp.delays = 2

\* C16: replay of an existing log prints each decoded entry once, in log order,
\* one after the other, and ends with the completion notice, also when the log
\* decodes to no entry.
C16_ReplaySequentialComplete ==
  rp.pc = "done" =>
    /\ rp.notice
    /\ rp.todo = <<>>
    /\ HeadersOf(rp.printed) = HeadersOf(parseSessionLog(rp.content))

\* C17: replay, show, inputs, search, search-all and history leave every session
\* log and the state file as they were, with or without a recorder at work.
C17_ReadOnly ==
  [][reader' # reader => logs' = logs /\ stateFile' = stateFile]_vars

C17_Witness ==
  /\ Recording(1)
  /\ live[1] # {}
  /\ stateFile # NoSession
  /\ reader.op = "replay"
  /\ reader.entries # <<>>

\* C18: while a recorder is in its loop (Prompting or Running) and no
\* termination signal is on its way to it, the state file holds the record of
\* that recorder: its pid and the log file it appends to.
C18_StateNamesRecorder ==
  \A p \in Procs :
    (Recording(p) /\ ~sig[p]) => stateFile = <<[pid |-> p, logFile |-> logFile[p]]>>

C20_LoadNeverFails ==
  [][\A p \in Procs :
       /\ (pc[p] = "start_read" /\ ActiveSession(st[p]) = NoSession /\ pc'[p] # pc[p]) =>
            pc'[p] = "loop" /\ outcome'[p] = "Started"
       /\ (pc[p] = "stop_read" /\ ActiveSession(st[p]) = NoSession /\ pc'[p] # pc[p]) =>
            outcome'[p] = "NotFound"]_vars

\* C21: history lists exactly the stored session log files, most recent first,
\* and search-all scans exactly the session log files, however many times
\* export, export-all or summarize ran before.
C21_DirListsLogs ==
  /\ reader.op = "history" =>
       reader.entries =
         Reverse([i \in 1..Len(SessionFiles) |-> [date |-> SessionFiles[i], ext |-> "log"]])
  /\ reader.op = "search-all" =>
       \A i \in 1..Len(reader.entries) : reader.entries[i].file.ext = "log"

\* C22: closing is terminal: once a recorder has appended the session-ended
\* boundary (it is closing or has exited), no step appends anything to its log.
C22_ClosingTerminal ==
  [][\A p \in Procs :
       (pc[p] \in {"closing", "exited"} /\ logFile[p] # None) =>
         logs'[logFile[p]] = logs[logFile[p]]]_vars

\* the accepted line is a command: not empty once trimmed, not the exit keyword
IsCommandLine(line) ==
  LET cmd == Trim(line)
  IN  cmd # <<>> /\ [i \in 1..Len(cmd) |-> LowerTok(cmd[i])] # <<"exit">>

\* the step opened an entry of recorder p: a header in the log, a child spawned
Opened(p) ==
  /\ logFile[p] # None
  /\ Len(recorded'[logFile[p]]) = Len(recorded[logFile[p]]) + 1
  /\ live'[p] # live[p]

\* C23: the line handler opens an entry (header appended, child spawned) if and
\* only if the line is a command; an empty or blank line changes nothing, and
\* the exit keyword, in any case, is neither recorded nor run.
C23_OpensIffCommand ==
  [][\A p \in Procs, line \in Lines, t \in Times :
       (LineEmpty(p, line) \/ LineExit(p, line) \/ LineCommand(p, line, t)) =>
         /\ Opened(p) <=> IsCommandLine(line)
         /\ Opened(p) => Added(logFile[p]) = EncodeHeader(t, Trim(line))
         /\ ~IsCommandLine(line) => recorded' = recorded /\ live' = live
         /\ Trim(line) = <<>> => logs' = logs]_vars

C23_Witness ==
  \E d \in Dates :
    /\ pc[1] = "exited" /\ outcome[1] = "Exit"
    /\ Len(recorded[d]) = 1
    /\ recorded[d][1].cmd = <<"echo", SP, MASKED>>
    /\ ~Includes(logs[d], "exit") /\ ~Includes(logs[d], "EXIT")

\* a occurs in b as a subsequence, in order
RECURSIVE IsSubseq(_, _)
IsSubseq(a, b) ==
  IF a = <<>> THEN TRUE
  ELSE IF b = <<>> THEN FALSE
  ELSE IF Head(a) = Head(b) THEN IsSubseq(Tail(a), Tail(b))
  ELSE IsSubseq(a, Tail(b))

\* C24: the step that delivers an output chunk appends its masked form at the
\* end of the log, nothing is buffered: after it the log holds the masked form
\* of every chunk delivered so far, in the order of delivery.
C24_ChunkAppendedAtOnce ==
  [][terminal' # terminal =>
       \E p \in Procs :
         LET s == SubSeq(terminal', Len(terminal) + 1, Len(terminal'))
             f == logFile[p]
         IN  /\ f # None
             /\ terminal' = terminal \o s
             /\ Added(f) = maskSensitive(s)
             /\ logs'[f] = logs[f] \o Added(f)
             /\ IsSubseq(maskSensitive(terminal'), logs'[f])]_vars

C24_Witness ==
  \E d \in Dates, c \in 1..MaxCmds :
    /\ c \in live[1]
    /\ recorded[d][c].chunks = 2
    /\ terminal = <<"a", NL, SECRET>>
    /\ SubSeq(logs[d], Len(logs[d]) - 2, Len(logs[d])) = <<"a", NL, MASKED>>

\* C25: every entry whose child closed while the recorder ran is emitted by
\* parseSessionLog, whatever the child printed: as many entries are decoded as
\* were sealed, with the commands of the sealed entries.
C25_SealedIsDecoded ==
  \A d \in Dates :
    (clean[d] /\ NoEndMarkerText(d)) =>
      HeadersOf(parseSessionLog(logs[d])) = HeadersOf(ClosedOf(recorded[d]))

\* C26: each session log only grows: every step of every command leaves the
\* previous content of each log as a prefix of its new content.
C26_LogsOnlyGrow ==
  [][\A d \in Dates :
       /\ Len(logs'[d]) >= Len(logs[d])
       /\ SubSeq(logs'[d], 1, Len(logs[d])) = logs[d]]_vars

C26_Witness ==
  \E d \in Dates :
    /\ outcome[2] = "Stopped" /\ outcome[1] = "Signalled"
    /\ Includes(logs[d], END) /\ Includes(logs[d], MASKED)
    /\ logs[d][Len(logs[d]) - 1] = ENDED
    /\ reader.op = "search-all"

\* whether a chunk of the entry arrived on the error stream, for the recorded
\* entries whose command contains the pattern
RECURSIVE ErrFlags(_, _)
ErrFlags(es, pattern) ==
  IF es = <<>> THEN <<>>
  ELSE (IF Contains(Head(es).cmd, pattern) THEN <<Head(es).errs > 0>> ELSE <<>>)
       \o ErrFlags(Tail(es), pattern)

\* C27: search and search-all tag an entry with [ERROR] if and only if at least
\* one chunk of that entry arrived on the error stream.
C27_ErrorTagIffStderr ==
  \A d \in Dates :
    reader.op \in {"search", "search-all"} =>
      [i \in 1..Len(reader.entries) |-> reader.entries[i].error]
        = ErrFlags(recorded[d], reader.pattern)

\* C28: show --last n, n > 0, prints the last n command entries of the log, or
\* all of them when there are fewer, each with its command header, whatever
\* boundary lines end the file.
C28_ShowLastEntries ==
  \A d \in Dates :
    (reader.op = "show" /\ reader.n > 0) =>
      LET k == IF reader.n >= Len(recorded[d]) THEN Len(recorded[d]) ELSE reader.n
      IN  /\ Len(reader.entries) = k
          /\ \A i \in 1..k :
               Contains(reader.entries[i].text,
                        <<CMDMARK, SP>> \o recorded[d][Len(recorded[d]) - k + i].cmd)

\* C29: a step that removes the record of a recorder that is still running is
\* that recorder's own teardown, or the stop that loaded that very record:
\* no teardown and no stop removes the record of another running recorder.
C29_ClearRespectsOwner ==
  [][(stateFile # NoSession /\ stateFile' = NoSession) =>
       LET owner == stateFile[1].pid
       IN  pc[owner] \in {"loop", "closing"} =>
             \A p \in Procs :
               pc'[p] # pc[p] => (p = owner \/ (pc[p] = "stop_read" /\ st[p] = stateFile))]_vars

\* C30: a recorder that no longer reads input has not left its own record
\* behind: the session-ended boundary is in its log and no record in the state
\* file names it, so that a later start is not rejected because of it.
C30_NoStaleRecord ==
  \A p \in Procs :
    (pc[p] \in {"closing", "exited"} /\ logFile[p] # None) =>
      /\ stateFile = NoSession \/ stateFile[1].pid # p
      /\ Includes(logs[logFile[p]], ENDED)

====
